---- MODULE Spec2Model ----
(***************************************************************************)
(* A model of the file system API of src/blueprints/file_system_endpoints  *)
(* .py: the three Flask handlers list_files (GET), create_or_update_file   *)
(* (POST, PUT) and delete_file (DELETE) over a small POSIX file system     *)
(* with directories, regular files and symbolic links.                     *)
(*                                                                         *)
(* An absolute path is the sequence of its components (<<>> is "/").  A    *)
(* file system is a function from the absolute paths that exist to their   *)
(* entries.  File contents are sequences of bytes, text is a sequence of   *)
(* code points, and a request that ends in an exception no handler         *)
(* catches is answered by Flask with status 500.                           *)
(***************************************************************************)
EXTENDS Integers, Sequences, FiniteSets, TLC

VARIABLES
    fs,      \* the file system now
    prev,    \* the file system before the last request
    req,     \* the last request: method, path, body
    resp,    \* the response to the last request
    count,   \* the number of requests served
    workers  \* the requests in flight, served statement by statement

vars == <<fs, prev, req, resp, count, workers>>

-----------------------------------------------------------------------------
(* Bounds of the model.                                                    *)

\* The longest client path, in segments.
MaxPathLen == 2

\* The number of requests served in one behaviour.
MaxRequests == 2

-----------------------------------------------------------------------------
(* Paths.                                                                  *)

\* The configured root directory (app.config["root_directory"]), resolved.
RootDirectory == <<"r">>

\* A directory beside the root: everything under it is outside the root.
OutsideDirectory == <<"o">>

\* os.pardir
pardir == ".."

\* The segments a client path is made of.
Segments == {"d", "f", "l", pardir}

\* The client paths of the requests: "" is the root itself.
ClientPaths == UNION {[1..n -> Segments] : n \in 0..MaxPathLen}

\* pathlib.PurePath.parent: the parent of "/" is "/".
Parent(p) == IF p = <<>> THEN <<>> ELSE SubSeq(p, 1, Len(p) - 1)

\* a is p or one of p.parents
IsPrefix(a, p) == Len(a) <= Len(p) /\ SubSeq(p, 1, Len(a)) = a

\* pathlib.PurePath.parents: the proper ancestors of p.
Parents(p) == {SubSeq(p, 1, n) : n \in 0..(Len(p) - 1)}

\* The confinement test made against the parent of the root directory.
Confined_AgainstParent(full) ==
    ~(full # Parent(RootDirectory) /\ Parent(RootDirectory) \notin Parents(full))

\* The confinement test of the three handlers; a request is answered 403
\* when full_file_path != root_directory and
\* root_directory not in full_file_path.parents.
Confined(full) == ~(full # RootDirectory /\ RootDirectory \notin Parents(full))

-----------------------------------------------------------------------------
(* File system entries and the primitives the handlers call.               *)

Dir == [kind |-> "dir", content |-> <<>>, target |-> <<>>]
File(bytes) == [kind |-> "file", content |-> bytes, target |-> <<>>]
Link(to) == [kind |-> "link", content |-> <<>>, target |-> to]

Exists(f, p) == p \in DOMAIN f
IsDirAt(f, p) == Exists(f, p) /\ f[p].kind = "dir"
IsFileAt(f, p) == Exists(f, p) /\ f[p].kind = "file"
IsLinkAt(f, p) == Exists(f, p) /\ f[p].kind = "link"

\* posixpath._joinrealpath (non-strict): walks rest from path, pops a
\* component on "..", follows symbolic links (absolute targets restart at
\* "/"), and appends a component that does not exist as it is.  ok is FALSE
\* when a symbolic link is met while it is being resolved (a loop).
RECURSIVE JoinRealPath(_, _, _, _)
JoinRealPath(f, path, rest, seen) ==
    IF rest = <<>> THEN [path |-> path, ok |-> TRUE]
    ELSE LET name == Head(rest)
             tl == Tail(rest)
             newpath == Append(path, name)
         IN  IF name = pardir THEN JoinRealPath(f, Parent(path), tl, seen)
             ELSE IF ~IsLinkAt(f, newpath) THEN JoinRealPath(f, newpath, tl, seen)
             ELSE IF newpath \in seen THEN [path |-> newpath \o tl, ok |-> FALSE]
             ELSE LET r == JoinRealPath(f, <<>>, f[newpath].target, seen \cup {newpath})
                  IN  IF ~r.ok THEN [path |-> r.path \o tl, ok |-> FALSE]
                      ELSE JoinRealPath(f, r.path, tl, seen)

\* (root_directory / path).resolve()
Resolve(f, path) == JoinRealPath(f, <<>>, RootDirectory \o path, {})

\* The kernel's path walk (stat): every component but the last must lead to
\* a directory, symbolic links are followed, ".." is the parent directory.
\* ok is FALSE for ENOENT, ENOTDIR and ELOOP.
RECURSIVE Namei(_, _, _, _)
Namei(f, cur, rest, seen) ==
    IF rest = <<>> THEN [ok |-> TRUE, loc |-> cur]
    ELSE IF ~IsDirAt(f, cur) THEN [ok |-> FALSE, loc |-> cur]
    ELSE LET name == Head(rest)
             tl == Tail(rest)
             new == Append(cur, name)
         IN  IF name = pardir THEN Namei(f, Parent(cur), tl, seen)
             ELSE IF ~Exists(f, new) THEN [ok |-> FALSE, loc |-> new]
             ELSE IF ~IsLinkAt(f, new) THEN Namei(f, new, tl, seen)
             ELSE IF new \in seen THEN [ok |-> FALSE, loc |-> new]
             ELSE LET r == Namei(f, <<>>, f[new].target, seen \cup {new})
                  IN  IF ~r.ok THEN r ELSE Namei(f, r.loc, tl, seen)

\* os.lstat of root_directory / path: the walk follows every component but
\* the last one.
Lstat(f, path) ==
    LET raw == RootDirectory \o path
        dir == Namei(f, <<>>, Parent(raw), {})
        last == raw[Len(raw)]
    IN  IF ~dir.ok \/ ~IsDirAt(f, dir.loc) THEN [ok |-> FALSE, loc |-> dir.loc]
        ELSE IF last = pardir THEN [ok |-> TRUE, loc |-> Parent(dir.loc)]
        ELSE [ok |-> Exists(f, Append(dir.loc, last)), loc |-> Append(dir.loc, last)]

\* (root_directory / path).is_symlink()
IsSymlink(f, path) == LET st == Lstat(f, path) IN st.ok /\ IsLinkAt(f, st.loc)

\* (root_directory / path).is_dir(), which follows symbolic links
RawIsDir(f, path) ==
    LET st == Namei(f, <<>>, RootDirectory \o path, {}) IN st.ok /\ IsDirAt(f, st.loc)

\* f without the entries in gone
Without(f, gone) == [p \in DOMAIN f \ gone |-> f[p]]

\* f with the entry e at p
With(f, p, e) == [q \in DOMAIN f \cup {p} |-> IF q = p THEN e ELSE f[q]]

\* The entry at p and everything below it.
Subtree(f, p) == {q \in DOMAIN f : IsPrefix(p, q)}

\* A removal that follows the symbolic links below p into the directories
\* they lead to.
Rmtree_FollowsLinks(f, p) ==
    LET led == {f[q].target : q \in {x \in Subtree(f, p) : f[x].kind = "link"}}
    IN  Without(f, Subtree(f, p) \cup UNION {Subtree(f, t) \ {t} : t \in led})

\* A removal of the directory entry alone (os.rmdir without its emptiness
\* check).
Rmtree_TopOnly(f, p) == Without(f, {p})

\* shutil.rmtree(p) of a directory p that is not a symbolic link: symbolic
\* links below p are unlinked, never followed.
Rmtree(f, p) == Without(f, Subtree(f, p))

\* Path.unlink(missing_ok=True) of the entry at p
Unlink(f, p) == Without(f, {p})

\* Path.mkdir(exist_ok=True, parents=True) of p: os.mkdir fails at the first
\* ancestor that exists and is no directory, before anything is created.
MkdirParents(f, p) ==
    LET ancestors == {SubSeq(p, 1, n) : n \in 0..Len(p)}
    IN  IF \E a \in ancestors : Exists(f, a) /\ ~IsDirAt(f, a)
        THEN [ok |-> FALSE, fs |-> f]
        ELSE [ok |-> TRUE,
              fs |-> [q \in DOMAIN f \cup ancestors |-> IF Exists(f, q) THEN f[q] ELSE Dir]]

-----------------------------------------------------------------------------
(* Text, bytes and base64: what open(), read(), write() and b64decode do.  *)

\* str.encode of one code point in UTF-8, the encoding of a text-mode open()
\* (code points below 2048: one or two bytes).
Utf8EncodeChar(c) == IF c < 128 THEN <<c>> ELSE <<192 + (c \div 64), 128 + (c % 64)>>

\* file.write(text) on a file opened "w+": the text encoded in UTF-8, "\n"
\* written as os.linesep, which is "\n".
RECURSIVE Utf8Encode(_)
Utf8Encode(text) ==
    IF text = <<>> THEN <<>> ELSE Utf8EncodeChar(Head(text)) \o Utf8Encode(Tail(text))

\* bytes.decode of UTF-8 sequences of one and two bytes; ok is FALSE for a
\* UnicodeDecodeError.
RECURSIVE Utf8Decode(_)
Utf8Decode(bytes) ==
    IF bytes = <<>> THEN [ok |-> TRUE, text |-> <<>>]
    ELSE LET b == Head(bytes)
         IN  IF b < 128
             THEN LET r == Utf8Decode(Tail(bytes))
                  IN  [ok |-> r.ok, text |-> <<b>> \o r.text]
             ELSE IF b >= 194 /\ b <= 223 /\ Len(bytes) >= 2 /\ bytes[2] >= 128 /\ bytes[2] <= 191
             THEN LET r == Utf8Decode(Tail(Tail(bytes)))
                  IN  [ok |-> r.ok, text |-> <<(b - 192) * 64 + (bytes[2] - 128)>> \o r.text]
             ELSE [ok |-> FALSE, text |-> <<>>]

\* The universal newlines of a text-mode read (newline=None): "\r\n" and a
\* lone "\r" are returned as "\n".
RECURSIVE TranslateNewlines(_)
TranslateNewlines(text) ==
    IF text = <<>> THEN <<>>
    ELSE IF Head(text) = 13
         THEN IF Len(text) >= 2 /\ text[2] = 10
              THEN <<10>> \o TranslateNewlines(Tail(Tail(text)))
              ELSE <<10>> \o TranslateNewlines(Tail(text))
         ELSE <<Head(text)>> \o TranslateNewlines(Tail(text))

\* full_file_path.open().read()
ReadText(bytes) ==
    LET r == Utf8Decode(bytes) IN [ok |-> r.ok, text |-> TranslateNewlines(r.text)]

\* The base64 alphabet, value 0 first.
B64Alphabet ==
    <<"A", "B", "C", "D", "E", "F", "G", "H", "I", "J", "K", "L", "M", "N", "O", "P",
      "Q", "R", "S", "T", "U", "V", "W", "X", "Y", "Z", "a", "b", "c", "d", "e", "f",
      "g", "h", "i", "j", "k", "l", "m", "n", "o", "p", "q", "r", "s", "t", "u", "v",
      "w", "x", "y", "z", "0", "1", "2", "3", "4", "5", "6", "7", "8", "9", "+", "/">>

B64Value(c) == (CHOOSE i \in 1..Len(B64Alphabet) : B64Alphabet[i] = c) - 1

\* binascii.a2b_base64 (not strict), the loop of base64.b64decode: characters
\* outside the alphabet are skipped, "=" ends the data once a quad holds two
\* or three characters and is padded to four, and data that ends inside a
\* quad is an error (binascii.Error: Incorrect padding).
RECURSIVE A2bBase64(_, _, _, _, _)
A2bBase64(s, quad_pos, leftchar, pads, out) ==
    IF s = <<>> THEN [ok |-> quad_pos = 0, bytes |-> out]
    ELSE LET c == Head(s)
             tl == Tail(s)
         IN  IF c = "="
             THEN IF quad_pos >= 2 /\ quad_pos + pads + 1 >= 4
                  THEN [ok |-> TRUE, bytes |-> out]
                  ELSE A2bBase64(tl, quad_pos, leftchar, pads + 1, out)
             ELSE IF \A i \in 1..Len(B64Alphabet) : B64Alphabet[i] # c
             THEN A2bBase64(tl, quad_pos, leftchar, pads, out)
             ELSE LET v == B64Value(c)
                  IN  CASE quad_pos = 0 -> A2bBase64(tl, 1, v, 0, out)
                        [] quad_pos = 1 ->
                            A2bBase64(tl, 2, v % 16, 0, Append(out, leftchar * 4 + (v \div 16)))
                        [] quad_pos = 2 ->
                            A2bBase64(tl, 3, v % 4, 0, Append(out, leftchar * 16 + (v \div 4)))
                        [] OTHER ->
                            A2bBase64(tl, 0, 0, 0, Append(out, leftchar * 64 + v))

\* base64.b64decode(s)
B64Decode(s) == A2bBase64(s, 0, 0, 0, <<>>)

-----------------------------------------------------------------------------
(* Requests and responses.                                                 *)

\* A JSON body: an object that may carry "contents" (text) and
\* "base64_contents" (a base64 string); request.get_json() or {}.
Body(hc, c, hb, b) ==
    [has_contents |-> hc, contents |-> c, has_base64 |-> hb, base64_contents |-> b]

EmptyBody == Body(FALSE, <<>>, FALSE, <<>>)

\* "a", and "e-acute" followed by "\r\n"
Texts == {<<97>>, <<233, 13, 10>>}

\* the byte 0x80, and a string that ends inside a quad
Base64Strings == {<<"g", "A", "=", "=">>, <<"A">>}

Bodies ==
    {EmptyBody}
    \cup {Body(TRUE, t, FALSE, <<>>) : t \in Texts}
    \cup {Body(FALSE, <<>>, TRUE, b) : b \in Base64Strings}
    \cup {Body(TRUE, <<97>>, TRUE, <<"g", "A", "=", "=">>)}

\* A response: the status, which message or payload it carries, and the
\* payload (file_contents, or the file_name of each directory_contents item).
Response(status, msg) == [status |-> status, msg |-> msg, contents |-> <<>>, entries |-> {}]

\* Flask's answer to an exception no handler catches.
InternalServerError == Response(500, "unhandled")

\* _get_file_details(x)["file_name"]: str(path.relative_to(root_directory))
RelativeToRoot(p) == SubSeq(p, Len(RootDirectory) + 1, Len(p))

\* The first character of stat.filemode(st_mode): the type of an entry.
FileType(e) == CASE e.kind = "dir" -> "d" [] e.kind = "link" -> "l" [] OTHER -> "-"

\* File details taken with a stat that follows symbolic links: a link is
\* described by what it leads to, and a link that leads nowhere raises.
GetFileDetails_FollowsLinks(f, x) ==
    LET st == Namei(f, <<>>, x, {})
    IN  IF st.ok /\ Exists(f, st.loc)
        THEN [ok |-> TRUE, file_name |-> RelativeToRoot(x), type |-> FileType(f[st.loc])]
        ELSE [ok |-> FALSE, file_name |-> RelativeToRoot(x), type |-> "-"]

\* _get_file_details(x): os.stat(x, follow_symlinks=False) of a child x of
\* the listed directory; the file name and the type of the entry itself.
GetFileDetails(f, x) ==
    [ok |-> Exists(f, x), file_name |-> RelativeToRoot(x),
     type |-> IF Exists(f, x) THEN FileType(f[x]) ELSE "-"]

\* full_file_path.iterdir()
Iterdir(f, p) == {q \in DOMAIN f : q # <<>> /\ Parent(q) = p}

-----------------------------------------------------------------------------
(* The handlers.  Each is the whole handler: the response and the file     *)
(* system it leaves.                                                       *)

\* An existence test of the parent directory instead of the path.
PathExists_OfParent(f, full) == Exists(f, Parent(full))

\* full_file_path.exists() of list_files and delete_file, on the resolved
\* path.
PathExists(f, full) == Exists(f, full)

\* is_file() in the place of exists(): an existing directory passes.
AlreadyExists_FilesOnly(f, method, full) == method = "POST" /\ IsFileAt(f, full)

\* request.method == "POST" and full_file_path.exists()
AlreadyExists(f, method, full) == method = "POST" /\ Exists(f, full)

\* A validation that looks only for a body that is None, which
\* request.get_json() or {} never is.
MissingContents_OnNone(body) == FALSE

\* The validation with the second "not" left out.
MissingContents_Typo(body) == ~body.has_contents /\ body.has_base64

\* "contents" not in request_body and "base64_contents" not in request_body
MissingContents(body) == ~body.has_contents /\ ~body.has_base64

\* list_files(path)
ListFiles(f, path) ==
    LET full == Resolve(f, path)
    IN  IF ~full.ok THEN InternalServerError
        ELSE IF ~Confined(full.path) THEN Response(403, "outside_access")
        ELSE IF ~PathExists(f, full.path) THEN Response(404, "not_found")
        ELSE IF IsDirAt(f, full.path)
        THEN LET details == {GetFileDetails(f, x) : x \in Iterdir(f, full.path)}
             IN  IF \E e \in details : ~e.ok THEN InternalServerError
                 ELSE [status |-> 200, msg |-> "directory_contents", contents |-> <<>>,
                       entries |-> {[file_name |-> e.file_name, type |-> e.type] : e \in details}]
        ELSE IF ~IsFileAt(f, full.path) THEN InternalServerError  \* open() raises
        ELSE LET r == ReadText(f[full.path].content)
             IN  IF ~r.ok THEN InternalServerError
                 ELSE [status |-> 200, msg |-> "file_contents", contents |-> r.text,
                       entries |-> {}]

\* An open() for reading that truncates the file (mode "w+").
OpenForRead_Truncates(f, full) == With(f, full, File(<<>>))

\* full_file_path.open() of list_files: the default mode "r" neither
\* creates nor truncates.
OpenForRead(f, full) == f

\* The file system list_files(path) leaves: its only call that could write
\* is the open() of a regular file.
ListFilesEffect(f, path) ==
    LET full == Resolve(f, path)
    IN  IF full.ok /\ Confined(full.path) /\ PathExists(f, full.path) /\ IsFileAt(f, full.path)
        THEN OpenForRead(f, full.path)
        ELSE f

\* A write that makes room for the file: a directory at the path is
\* removed with everything below it, then the file is written.
WriteFile_ClearsDirectory(f, full, body) ==
    LET g == IF IsDirAt(f, full) THEN Rmtree(f, full) ELSE f
    IN  IF body.has_contents
        THEN [ok |-> TRUE, fs |-> With(g, full, File(Utf8Encode(body.contents)))]
        ELSE LET d == B64Decode(body.base64_contents)
             IN  IF d.ok THEN [ok |-> TRUE, fs |-> With(g, full, File(d.bytes))]
                 ELSE [ok |-> FALSE, fs |-> With(g, full, File(<<>>))]

\* A write on a file opened for appending (mode "a+"): what the file held
\* stays in front of what is written.
WriteFile_Appends(f, full, body) ==
    LET old == IF IsFileAt(f, full) THEN f[full].content ELSE <<>>
    IN  IF IsDirAt(f, full) THEN [ok |-> FALSE, fs |-> f]
        ELSE IF body.has_contents
        THEN [ok |-> TRUE, fs |-> With(f, full, File(old \o Utf8Encode(body.contents)))]
        ELSE LET d == B64Decode(body.base64_contents)
             IN  IF d.ok THEN [ok |-> TRUE, fs |-> With(f, full, File(old \o d.bytes))]
                 ELSE [ok |-> FALSE, fs |-> With(f, full, File(old))]

\* full_file_path.open("w+") / open("wb+") followed by file.write(...): the
\* file is created or truncated by open, then written; an exception raised
\* while the argument of write is computed leaves the file empty.
WriteFile(f, full, body) ==
    IF IsDirAt(f, full) THEN [ok |-> FALSE, fs |-> f]
    ELSE IF body.has_contents
    THEN [ok |-> TRUE, fs |-> With(f, full, File(Utf8Encode(body.contents)))]
    ELSE LET d == B64Decode(body.base64_contents)
         IN  IF d.ok THEN [ok |-> TRUE, fs |-> With(f, full, File(d.bytes))]
             ELSE [ok |-> FALSE, fs |-> With(f, full, File(<<>>))]

\* The handler with the parent directories made as soon as the path is
\* known to be confined, before the existence and payload checks.
CreateOrUpdateFile_MkdirFirst(f, method, path, body) ==
    LET full == Resolve(f, path)
    IN  IF ~full.ok THEN [resp |-> InternalServerError, fs |-> f]
        ELSE IF ~Confined(full.path) THEN [resp |-> Response(403, "outside_access"), fs |-> f]
        ELSE LET made == MkdirParents(f, Parent(full.path))
             IN  IF ~made.ok THEN [resp |-> InternalServerError, fs |-> f]
                 ELSE IF AlreadyExists(made.fs, method, full.path)
                 THEN [resp |-> Response(400, "already_exists"), fs |-> made.fs]
                 ELSE IF MissingContents(body)
                 THEN [resp |-> Response(400, "no_contents"), fs |-> made.fs]
                 ELSE LET written == WriteFile(made.fs, full.path, body)
                      IN  IF ~written.ok
                          THEN [resp |-> InternalServerError, fs |-> written.fs]
                          ELSE [resp |-> Response(200, "created"), fs |-> written.fs]

\* create_or_update_file(path) for request.method = method
CreateOrUpdateFile(f, method, path, body) ==
    LET full == Resolve(f, path)
    IN  IF ~full.ok THEN [resp |-> InternalServerError, fs |-> f]
        ELSE IF ~Confined(full.path) THEN [resp |-> Response(403, "outside_access"), fs |-> f]
        ELSE IF AlreadyExists(f, method, full.path)
        THEN [resp |-> Response(400, "already_exists"), fs |-> f]
        ELSE IF MissingContents(body)
        THEN [resp |-> Response(400, "no_contents"), fs |-> f]
        ELSE LET made == MkdirParents(f, Parent(full.path))
             IN  IF ~made.ok THEN [resp |-> InternalServerError, fs |-> f]
                 ELSE LET written == WriteFile(made.fs, full.path, body)
                      IN  IF ~written.ok THEN [resp |-> InternalServerError, fs |-> written.fs]
                          ELSE [resp |-> Response(200, "created"), fs |-> written.fs]

\* delete_file(path)
DeleteFile(f, path) ==
    LET full == Resolve(f, path)
        is_symlink == IsSymlink(f, path)
        \* full_file_path_or_link_source.is_dir()
        is_dir == IF is_symlink THEN RawIsDir(f, path) ELSE IsDirAt(f, full.path)
    IN  IF ~full.ok THEN [resp |-> InternalServerError, fs |-> f]
        ELSE IF ~Confined(full.path) THEN [resp |-> Response(403, "outside_delete"), fs |-> f]
        ELSE IF ~PathExists(f, full.path) THEN [resp |-> Response(404, "not_found"), fs |-> f]
        ELSE IF is_dir
        THEN \* shutil.rmtree raises OSError when it is called on a symbolic link
             IF is_symlink THEN [resp |-> InternalServerError, fs |-> f]
             ELSE [resp |-> Response(200, "deleted_directory"), fs |-> Rmtree(f, full.path)]
        ELSE [resp |-> Response(200, "deleted_file"),
              fs |-> Unlink(f, IF is_symlink THEN Lstat(f, path).loc ELSE full.path)]

-----------------------------------------------------------------------------
(* The state machine: one action per handler and method.                   *)

\* The file system the service starts on: the root with a directory d, a
\* file d/f and a symbolic link l, and a directory outside the root with a
\* file and a symbolic link that leads into the root.
InitialFs(linkTarget) ==
    LET paths == {<<>>, RootDirectory, RootDirectory \o <<"d">>, RootDirectory \o <<"d", "f">>,
                  RootDirectory \o <<"l">>, OutsideDirectory, OutsideDirectory \o <<"f">>,
                  OutsideDirectory \o <<"k">>}
    IN  [p \in paths |->
            CASE p = RootDirectory \o <<"d", "f">> -> File(<<120, 121>>)
              [] p = OutsideDirectory \o <<"f">> -> File(<<122>>)
              [] p = RootDirectory \o <<"l">> -> Link(linkTarget)
              [] p = OutsideDirectory \o <<"k">> -> Link(RootDirectory \o <<"d">>)
              [] OTHER -> Dir]

\* Where the symbolic link l of the root leads: a file in the root, a
\* directory in the root, a directory outside, nothing, a symbolic link
\* outside that leads back into the root.
LinkTargets ==
    {RootDirectory \o <<"d", "f">>, RootDirectory \o <<"d">>, OutsideDirectory,
     RootDirectory \o <<"m">>, OutsideDirectory \o <<"k">>}

NoRequest == [method |-> "NONE", path |-> <<>>, body |-> EmptyBody]

Init ==
    /\ fs \in {InitialFs(t) : t \in LinkTargets}
    /\ prev = fs
    /\ req = NoRequest
    /\ resp = Response(0, "none")
    /\ count = 0
    /\ workers = <<>>

Get ==
    /\ count < MaxRequests
    /\ \E path \in ClientPaths :
        /\ req' = [method |-> "GET", path |-> path, body |-> EmptyBody]
        /\ resp' = ListFiles(fs, path)
        /\ fs' = ListFilesEffect(fs, path)
    /\ prev' = fs
    /\ count' = count + 1
    /\ UNCHANGED workers

Write(method) ==
    /\ count < MaxRequests
    /\ \E path \in ClientPaths, body \in Bodies :
        LET r == CreateOrUpdateFile(fs, method, path, body)
        IN  /\ req' = [method |-> method, path |-> path, body |-> body]
            /\ resp' = r.resp
            /\ fs' = r.fs
    /\ prev' = fs
    /\ count' = count + 1
    /\ UNCHANGED workers

Post == Write("POST")

Put == Write("PUT")

Delete ==
    /\ count < MaxRequests
    /\ \E path \in ClientPaths :
        LET r == DeleteFile(fs, path)
        IN  /\ req' = [method |-> "DELETE", path |-> path, body |-> EmptyBody]
            /\ resp' = r.resp
            /\ fs' = r.fs
    /\ prev' = fs
    /\ count' = count + 1
    /\ UNCHANGED workers

Next == Get \/ Post \/ Put \/ Delete

Spec == Init /\ [][Next]_vars

-----------------------------------------------------------------------------
(* The claims.  Each is stated on the last request served: req and resp,   *)
(* the file system prev it was served on and the file system fs it left.   *)

\* p is the root or below it.
InsideRoot(p) == Len(p) >= Len(RootDirectory) /\ SubSeq(p, 1, Len(RootDirectory)) = RootDirectory

\* The resolved form of the last request's path, on the file system the
\* request was served on.
ResolvedBefore == Resolve(prev, req.path).path

Methods == {"GET", "POST", "PUT", "DELETE"}

\* C1: every GET, POST, PUT and DELETE on a client path whose resolved form
\* is neither the root nor below it is answered 403 and leaves the file
\* system as it was.
C1_OutsideRootIsForbidden ==
    (req.method \in Methods /\ ~InsideRoot(ResolvedBefore))
        => (resp.status = 403 /\ fs = prev)

\* C1 happens: a PUT with contents through the symbolic link l, which leads
\* outside the root, is refused.
C1_Witness ==
    /\ req.method = "PUT"
    /\ req.body.has_contents
    /\ req.path = <<"l", "f">>
    /\ ResolvedBefore = OutsideDirectory \o <<"f">>
    /\ resp.status = 403
    /\ fs = prev

\* The entries of f that are not the root and not below it.
OutsidePart(f) == [p \in {q \in DOMAIN f : ~InsideRoot(q)} |-> f[p]]

DeletesLiveLink ==
    /\ req.method = "DELETE"
    /\ IsSymlink(prev, req.path)
    /\ InsideRoot(ResolvedBefore)
    /\ ResolvedBefore \in DOMAIN prev

\* C3: DELETE on a symbolic link whose target exists below the root, be it
\* a file or a directory, removes the link and returns 200, and the target
\* is afterwards what it was.
C3_DeleteRemovesLinkOnly ==
    DeletesLiveLink =>
        /\ resp.status = 200
        /\ Lstat(prev, req.path).loc \notin DOMAIN fs
        /\ ResolvedBefore \in DOMAIN fs
        /\ fs[ResolvedBefore] = prev[ResolvedBefore]

\* C4: a POST on a confined path that exists is answered 400, whatever its
\* body is, and changes nothing.
C4_PostOnExistingPath ==
    (req.method = "POST" /\ InsideRoot(ResolvedBefore) /\ ResolvedBefore \in DOMAIN prev)
        => (resp.status = 400 /\ fs = prev)

\* C4 happens: a POST with contents on the existing file d/f is refused and
\* the file keeps its content.
C4_Witness ==
    /\ req.method = "POST"
    /\ req.body.has_contents
    /\ ResolvedBefore = RootDirectory \o <<"d", "f">>
    /\ ResolvedBefore \in DOMAIN prev
    /\ prev[ResolvedBefore].kind = "file"
    /\ resp.status = 400
    /\ fs = prev

\* A payload the handler can write: one of the two fields, and base64 that
\* decodes.
ValidPayload(body) ==
    /\ body.has_contents # body.has_base64
    /\ body.has_base64 => B64Decode(body.base64_contents).ok

\* The bytes a valid payload stands for.
PayloadBytes(body) ==
    IF body.has_contents THEN Utf8Encode(body.contents)
    ELSE B64Decode(body.base64_contents).bytes

\* C5: a PUT with a valid payload on a confined path returns 200 whatever
\* is at the path, and afterwards the file at the resolved path holds the
\* payload and nothing else.
C5_PutAlwaysProceeds ==
    (req.method = "PUT" /\ InsideRoot(ResolvedBefore) /\ ValidPayload(req.body))
        => /\ resp.status = 200
           /\ ResolvedBefore \in DOMAIN fs
           /\ fs[ResolvedBefore] = File(PayloadBytes(req.body))

\* C6: after a successful POST or PUT of the text c to a path, a GET on the
\* same path, served on the file system the write left, returns 200 with
\* file_contents equal to c.
C6_RoundTrip ==
    (req.method \in {"POST", "PUT"} /\ resp.status = 200 /\ req.body.has_contents)
        => LET got == ListFiles(fs, req.path)
           IN  /\ got.status = 200
               /\ got.msg = "file_contents"
               /\ got.contents = req.body.contents

\* The last request is a DELETE whose confined path is a directory, named
\* by the request itself and not through a symbolic link in its place.
DeletesDirectory ==
    /\ req.method = "DELETE"
    /\ InsideRoot(ResolvedBefore)
    /\ ResolvedBefore \in DOMAIN prev
    /\ prev[ResolvedBefore].kind = "dir"
    /\ ~IsSymlink(prev, req.path)

\* C7: DELETE on a confined path that is a directory returns 200 with the
\* 'Deleted directory' message, the directory and every descendant of it
\* are gone, and a GET that leads to the directory or to one of its former
\* descendants then returns 404.
C7_DeleteDirectory ==
    DeletesDirectory =>
        /\ resp.status = 200
        /\ resp.msg = "deleted_directory"
        /\ \A q \in DOMAIN prev :
            (Len(q) >= Len(ResolvedBefore) /\ SubSeq(q, 1, Len(ResolvedBefore)) = ResolvedBefore)
                => q \notin DOMAIN fs
        /\ \A p \in ClientPaths :
            LET to == Resolve(fs, p).path
            IN  (Len(to) >= Len(ResolvedBefore)
                    /\ SubSeq(to, 1, Len(ResolvedBefore)) = ResolvedBefore)
                    => ListFiles(fs, p).status = 404

\* C7 happens: the directory d, which holds the file d/f, is deleted.
C7_Witness ==
    /\ DeletesDirectory
    /\ req.path = <<"d">>
    /\ (RootDirectory \o <<"d", "f">>) \in DOMAIN prev
    /\ resp.msg = "deleted_directory"
    /\ (RootDirectory \o <<"d", "f">>) \notin DOMAIN fs
    /\ ListFiles(fs, <<"d", "f">>).status = 404

\* The last request is a POST or PUT whose body carries neither field.
WritesNothing ==
    /\ req.method \in {"POST", "PUT"}
    /\ ~req.body.has_contents
    /\ ~req.body.has_base64

\* C8 as stated: a POST or PUT whose body has neither contents nor
\* base64_contents returns 400 and changes nothing, whatever its path.
C8_NoContentsIsBadRequest == WritesNothing => (resp.status = 400 /\ fs = prev)

\* C8 as amended: a POST or PUT on a confined path whose body has neither
\* contents nor base64_contents returns 400 and changes nothing: neither
\* the file nor a missing parent directory of it is created.
C8_NoContentsOnConfinedPath ==
    (WritesNothing /\ InsideRoot(ResolvedBefore)) => (resp.status = 400 /\ fs = prev)

\* C8 happens: a PUT without contents on f/d, whose parent directory f is
\* missing, is refused and the directory is not created.
C8_Witness ==
    /\ WritesNothing
    /\ req.method = "PUT"
    /\ req.path = <<"f", "d">>
    /\ InsideRoot(ResolvedBefore)
    /\ Parent(ResolvedBefore) \notin DOMAIN prev
    /\ resp.status = 400
    /\ resp.msg = "no_contents"
    /\ Parent(ResolvedBefore) \notin DOMAIN fs

\* C9: every request ends in success (200), OutsideRoot (403), NotFound
\* (404), AlreadyExists (400) or BadPayload (400), never in a failure of a
\* file system primitive that no handler catches.
C9_CategorizedOutcome ==
    req.method \in Methods =>
        <<resp.status, resp.msg>> \in
            {<<200, "directory_contents">>, <<200, "file_contents">>, <<200, "created">>,
             <<200, "deleted_directory">>, <<200, "deleted_file">>,
             <<403, "outside_access">>, <<403, "outside_delete">>, <<404, "not_found">>,
             <<400, "already_exists">>, <<400, "no_contents">>}

\* C10: GET and DELETE on a confined path whose resolved form does not
\* exist return 404 and change nothing, also when the raw path is a
\* symbolic link whose target is missing.
C10_MissingIsNotFound ==
    (req.method \in {"GET", "DELETE"} /\ InsideRoot(ResolvedBefore)
        /\ ResolvedBefore \notin DOMAIN prev)
        => (resp.status = 404 /\ fs = prev)

\* C10 happens: DELETE on the symbolic link l, whose target is missing,
\* returns 404 and the link stays.
C10_Witness ==
    /\ req.method = "DELETE"
    /\ req.path = <<"l">>
    /\ IsSymlink(prev, req.path)
    /\ InsideRoot(ResolvedBefore)
    /\ ResolvedBefore \notin DOMAIN prev
    /\ resp.status = 404
    /\ (RootDirectory \o <<"l">>) \in DOMAIN fs

\* The last request is a POST or PUT that was accepted: 200, and the file
\* at the resolved path written.
Accepted ==
    /\ req.method \in {"POST", "PUT"}
    /\ resp.status = 200

\* C11 as stated: a POST or PUT is accepted only when exactly one of
\* contents and base64_contents is in the body, and a body that does not
\* carry exactly one of them writes nothing.
C11_ExactlyOneField ==
    /\ Accepted => (req.body.has_contents # req.body.has_base64)
    /\ (req.method \in {"POST", "PUT"} /\ req.body.has_contents = req.body.has_base64)
        => fs = prev

\* C11 as amended: a POST or PUT is accepted only when at least one of
\* contents and base64_contents is in the body; a body with neither writes
\* nothing, and of a body with both the contents are written.
C11_AtLeastOneField ==
    /\ Accepted => (req.body.has_contents \/ req.body.has_base64)
    /\ (req.method \in {"POST", "PUT"} /\ ~req.body.has_contents /\ ~req.body.has_base64)
        => fs = prev
    /\ (Accepted /\ req.body.has_contents)
        => (ResolvedBefore \in DOMAIN fs
            /\ fs[ResolvedBefore].content = Utf8Encode(req.body.contents))

\* C11 happens: a body with both fields is accepted and its contents, not
\* its base64_contents, are in the file.
C11_Witness ==
    /\ Accepted
    /\ req.body.has_contents
    /\ req.body.has_base64
    /\ ResolvedBefore \in DOMAIN fs
    /\ fs[ResolvedBefore].content = Utf8Encode(req.body.contents)
    /\ fs[ResolvedBefore].content # B64Decode(req.body.base64_contents).bytes

\* C12: the root directory exists and is a directory in every reachable
\* state.
C12_RootIsDirectory ==
    RootDirectory \in DOMAIN fs /\ fs[RootDirectory].kind = "dir"

\* The last request is a GET whose confined path is a directory.
ListsDirectory ==
    /\ req.method = "GET"
    /\ InsideRoot(ResolvedBefore)
    /\ ResolvedBefore \in DOMAIN prev
    /\ prev[ResolvedBefore].kind = "dir"

\* The immediate children of the listed directory.
ChildrenBefore == {q \in DOMAIN prev : Len(q) = Len(ResolvedBefore) + 1
                                        /\ SubSeq(q, 1, Len(ResolvedBefore)) = ResolvedBefore}

\* C13: GET on a confined directory returns 200 with exactly one File Entry
\* per immediate child and none for anything else, each named by the
\* child's path relative to the root, and a child that is a symbolic link
\* is listed as the link itself.
C13_ListsImmediateChildren ==
    ListsDirectory =>
        /\ resp.status = 200
        /\ resp.msg = "directory_contents"
        /\ Cardinality(resp.entries) = Cardinality(ChildrenBefore)
        /\ {e.file_name : e \in resp.entries}
            = {SubSeq(q, Len(RootDirectory) + 1, Len(q)) : q \in ChildrenBefore}
        /\ \A q \in ChildrenBefore :
            prev[q].kind = "link" =>
                [file_name |-> SubSeq(q, Len(RootDirectory) + 1, Len(q)), type |-> "l"]
                    \in resp.entries

\* C13 happens: the root, which holds the directory d with a file below it
\* and the symbolic link l to that directory, is listed: two entries, no
\* grandchild.
C13_Witness ==
    /\ ListsDirectory
    /\ ResolvedBefore = RootDirectory
    /\ (RootDirectory \o <<"d", "f">>) \in DOMAIN prev
    /\ (RootDirectory \o <<"l">>) \in DOMAIN prev
    /\ prev[RootDirectory \o <<"l">>].target = RootDirectory \o <<"d">>
    /\ resp.entries = {[file_name |-> <<"d">>, type |-> "d"],
                       [file_name |-> <<"l">>, type |-> "l"]}

\* The outcome of the last request served once more, on the file system it
\* left.
Repeated == CreateOrUpdateFile(fs, req.method, req.path, req.body)

\* C14: PUT is idempotent: the same PUT served again is answered as the
\* first was, 200 after 200, and leaves the file system the first one
\* left.
C14_PutIsIdempotent ==
    req.method = "PUT" =>
        /\ Repeated.resp = resp
        /\ Repeated.fs = fs

\* C14 happens: a PUT that replaced the content of the file d/f returned
\* 200, and returns 200 again.
C14_Witness ==
    /\ req.method = "PUT"
    /\ resp.status = 200
    /\ ResolvedBefore = RootDirectory \o <<"d", "f">>
    /\ prev[ResolvedBefore].kind = "file"
    /\ fs[ResolvedBefore] # prev[ResolvedBefore]
    /\ Repeated.resp.status = 200
    /\ Repeated.fs = fs

\* The directories strictly between the root and the resolved path of the
\* last request.
AncestorsInRoot == {a \in Parents(ResolvedBefore) : InsideRoot(a) /\ a # RootDirectory}

\* C16: after a successful POST or PUT each ancestor between the root and
\* the file exists as a directory and the file exists; a request turned
\* down by the confinement, existence or payload check (403, 400) has
\* created no directory: the file system is as it was.
C16_ParentsCreatedAfterChecks ==
    /\ Accepted =>
        /\ \A a \in AncestorsInRoot : a \in DOMAIN fs /\ fs[a].kind = "dir"
        /\ ResolvedBefore \in DOMAIN fs /\ fs[ResolvedBefore].kind = "file"
    /\ (req.method \in {"POST", "PUT"} /\ resp.status \in {400, 403}) => fs = prev

\* C16 happens: a successful write of f/d, where f was missing, has made
\* the directory f and the file f/d.
C16_Witness ==
    /\ Accepted
    /\ ResolvedBefore = RootDirectory \o <<"f", "d">>
    /\ (RootDirectory \o <<"f">>) \notin DOMAIN prev
    /\ fs[RootDirectory \o <<"f">>].kind = "dir"
    /\ fs[ResolvedBefore].kind = "file"

\* C18: a POST or PUT leaves every entry other than the one at the
\* resolved path as it was, adds nothing but directories above the
\* resolved path, and at the resolved path creates a regular file or
\* changes the content of one; whatever the status.
C18_WriteFrame ==
    req.method \in {"POST", "PUT"} =>
        /\ \A q \in DOMAIN prev \ {ResolvedBefore} : q \in DOMAIN fs /\ fs[q] = prev[q]
        /\ \A q \in DOMAIN fs \ (DOMAIN prev \cup {ResolvedBefore}) :
            /\ Len(q) < Len(ResolvedBefore)
            /\ SubSeq(ResolvedBefore, 1, Len(q)) = q
            /\ fs[q].kind = "dir"
        /\ ResolvedBefore \in DOMAIN prev =>
            /\ ResolvedBefore \in DOMAIN fs
            /\ fs[ResolvedBefore] # prev[ResolvedBefore] =>
                prev[ResolvedBefore].kind = "file" /\ fs[ResolvedBefore].kind = "file"
        /\ (ResolvedBefore \in DOMAIN fs \ DOMAIN prev) => fs[ResolvedBefore].kind = "file"

\* C18 happens: a write of f/d that ended in a failure (the base64 payload
\* does not decode) has made the directory f and an empty file f/d, and
\* every entry there was is as it was.
C18_Witness ==
    /\ req.method \in {"POST", "PUT"}
    /\ resp.status = 500
    /\ ResolvedBefore = RootDirectory \o <<"f", "d">>
    /\ DOMAIN fs = DOMAIN prev \cup {RootDirectory \o <<"f">>, ResolvedBefore}
    /\ (RootDirectory \o <<"f">>) \notin DOMAIN prev
    /\ \A q \in DOMAIN prev : fs[q] = prev[q]

\* C19: a GET leaves the file system as it was, whatever it returns.
C19_GetChangesNothing == req.method = "GET" => fs = prev

\* C19 happens: a GET has returned the content of a regular file, which
\* holds what it held.
C19_Witness ==
    /\ req.method = "GET"
    /\ resp.status = 200
    /\ resp.msg = "file_contents"
    /\ prev[ResolvedBefore].kind = "file"
    /\ fs[ResolvedBefore] = prev[ResolvedBefore]
    /\ fs[ResolvedBefore].content # <<>>

-----------------------------------------------------------------------------
(* Two requests on the same path served at the same time.  The service     *)
(* takes no lock: each request runs its handler one file system call       *)
(* after the other, and the calls of the two interleave freely.            *)

Workers == {"a", "b"}

\* A request that has not started: its payload, and the locals of its
\* handler (full_file_path, whether full_file_path_or_link_source is the
\* raw path, the status it returned).
Started(body) ==
    [pc |-> "resolve", body |-> body, full |-> <<>>, use_raw |-> FALSE, status |-> 0]

\* return ..., status
Finish(w, status) == [workers EXCEPT ![w].pc = "done", ![w].status = status]

Goto(w, pc) == [workers EXCEPT ![w].pc = pc]

\* Two DELETE requests on one client path.
InitDeleteRace ==
    /\ fs \in {InitialFs(t) : t \in LinkTargets}
    /\ prev = fs
    /\ req \in {[method |-> "DELETE", path |-> path, body |-> EmptyBody] : path \in ClientPaths}
    /\ resp = Response(0, "none")
    /\ count = 0
    /\ workers = [w \in Workers |-> Started(EmptyBody)]

\* resolve() and the confinement test of delete_file
DeleteResolve(w) ==
    /\ workers[w].pc = "resolve"
    /\ LET full == Resolve(fs, req.path)
       IN  workers' = IF ~full.ok THEN Finish(w, 500)
                      ELSE IF ~Confined(full.path) THEN Finish(w, 403)
                      ELSE [workers EXCEPT ![w].pc = "exists", ![w].full = full.path]
    /\ UNCHANGED <<fs, prev, req, resp, count>>

\* if not full_file_path.exists(): return 404
DeleteExists(w) ==
    /\ workers[w].pc = "exists"
    /\ workers' = IF ~PathExists(fs, workers[w].full) THEN Finish(w, 404) ELSE Goto(w, "source")
    /\ UNCHANGED <<fs, prev, req, resp, count>>

\* full_file_path_or_link_source = raw path if it is a symbolic link
DeleteSource(w) ==
    /\ workers[w].pc = "source"
    /\ workers' = [workers EXCEPT ![w].pc = "is_dir", ![w].use_raw = IsSymlink(fs, req.path)]
    /\ UNCHANGED <<fs, prev, req, resp, count>>

\* if full_file_path_or_link_source.is_dir():
DeleteIsDir(w) ==
    /\ workers[w].pc = "is_dir"
    /\ LET is_dir == IF workers[w].use_raw THEN RawIsDir(fs, req.path)
                     ELSE IsDirAt(fs, workers[w].full)
       IN  workers' = Goto(w, IF is_dir THEN "rmtree" ELSE "unlink")
    /\ UNCHANGED <<fs, prev, req, resp, count>>

\* shutil.rmtree(full_file_path_or_link_source): raises OSError on a
\* symbolic link, FileNotFoundError on a path that is gone and
\* NotADirectoryError on anything that is no directory.
DeleteRmtree(w) ==
    /\ workers[w].pc = "rmtree"
    /\ IF ~workers[w].use_raw /\ IsDirAt(fs, workers[w].full)
       THEN /\ fs' = Rmtree(fs, workers[w].full)
            /\ workers' = Finish(w, 200)
       ELSE /\ fs' = fs
            /\ workers' = Finish(w, 500)
    /\ UNCHANGED <<prev, req, resp, count>>

\* full_file_path_or_link_source.unlink(missing_ok=True): a path that is
\* gone is let pass, a directory raises.
DeleteUnlink(w) ==
    /\ workers[w].pc = "unlink"
    /\ LET target == IF workers[w].use_raw THEN Lstat(fs, req.path)
                     ELSE [ok |-> Exists(fs, workers[w].full), loc |-> workers[w].full]
       IN  IF ~target.ok
           THEN fs' = fs /\ workers' = Finish(w, 200)
           ELSE IF IsDirAt(fs, target.loc)
           THEN fs' = fs /\ workers' = Finish(w, 500)
           ELSE fs' = Unlink(fs, target.loc) /\ workers' = Finish(w, 200)
    /\ UNCHANGED <<prev, req, resp, count>>

NextDeleteRace ==
    \E w \in Workers :
        \/ DeleteResolve(w)
        \/ DeleteExists(w)
        \/ DeleteSource(w)
        \/ DeleteIsDir(w)
        \/ DeleteRmtree(w)
        \/ DeleteUnlink(w)

SpecDeleteRace == InitDeleteRace /\ [][NextDeleteRace]_vars

\* Two POST requests on one client path, each with its own body.
InitPostRace ==
    /\ fs \in {InitialFs(t) : t \in LinkTargets}
    /\ prev = fs
    /\ req \in {[method |-> "POST", path |-> path, body |-> EmptyBody] : path \in ClientPaths}
    /\ resp = Response(0, "none")
    /\ count = 0
    /\ workers \in [Workers -> {Started(body) : body \in Bodies}]

\* resolve() and the confinement test of create_or_update_file
PostResolve(w) ==
    /\ workers[w].pc = "resolve"
    /\ LET full == Resolve(fs, req.path)
       IN  workers' = IF ~full.ok THEN Finish(w, 500)
                      ELSE IF ~Confined(full.path) THEN Finish(w, 403)
                      ELSE [workers EXCEPT ![w].pc = "exists", ![w].full = full.path]
    /\ UNCHANGED <<fs, prev, req, resp, count>>

\* if request.method == "POST" and full_file_path.exists(): return 400
PostExists(w) ==
    /\ workers[w].pc = "exists"
    /\ workers' = IF AlreadyExists(fs, req.method, workers[w].full) THEN Finish(w, 400)
                  ELSE Goto(w, "validate")
    /\ UNCHANGED <<fs, prev, req, resp, count>>

\* the test of the body for "contents" and "base64_contents"
PostValidate(w) ==
    /\ workers[w].pc = "validate"
    /\ workers' = IF MissingContents(workers[w].body) THEN Finish(w, 400) ELSE Goto(w, "mkdir")
    /\ UNCHANGED <<fs, prev, req, resp, count>>

\* full_file_path.parent.mkdir(exist_ok=True, parents=True)
PostMkdir(w) ==
    /\ workers[w].pc = "mkdir"
    /\ LET made == MkdirParents(fs, Parent(workers[w].full))
       IN  /\ fs' = made.fs
           /\ workers' = IF made.ok THEN Goto(w, "open") ELSE Finish(w, 500)
    /\ UNCHANGED <<prev, req, resp, count>>

\* full_file_path.open("w+") / open("wb+"): O_CREAT | O_TRUNC, the file
\* is made, or emptied when it is there; a directory raises.
PostOpen(w) ==
    /\ workers[w].pc = "open"
    /\ IF IsDirAt(fs, workers[w].full) \/ ~IsDirAt(fs, Parent(workers[w].full))
       THEN fs' = fs /\ workers' = Finish(w, 500)
       ELSE fs' = With(fs, workers[w].full, File(<<>>)) /\ workers' = Goto(w, "write")
    /\ UNCHANGED <<prev, req, resp, count>>

\* What a file holds after bytes are written at its start.
WriteAtStart(old, bytes) == bytes \o SubSeq(old, Len(bytes) + 1, Len(old))

\* file.write(...) and the close of the file, then return 200; b64decode
\* raises before anything is written.
PostWrite(w) ==
    /\ workers[w].pc = "write"
    /\ LET body == workers[w].body
           d == IF body.has_contents THEN [ok |-> TRUE, bytes |-> Utf8Encode(body.contents)]
                ELSE B64Decode(body.base64_contents)
           full == workers[w].full
       IN  IF ~d.ok
           THEN fs' = fs /\ workers' = Finish(w, 500)
           ELSE /\ fs' = IF IsFileAt(fs, full)
                         THEN With(fs, full, File(WriteAtStart(fs[full].content, d.bytes)))
                         ELSE fs
                /\ workers' = Finish(w, 200)
    /\ UNCHANGED <<prev, req, resp, count>>

NextPostRace ==
    \E w \in Workers :
        \/ PostResolve(w)
        \/ PostExists(w)
        \/ PostValidate(w)
        \/ PostMkdir(w)
        \/ PostOpen(w)
        \/ PostWrite(w)

SpecPostRace == InitPostRace /\ [][NextPostRace]_vars

\* Every request of the race has returned.
AllDone == \A w \in Workers : workers[w].pc = "done"

\* C15: two DELETE requests on the same confined path, which holds a file
\* or a directory, each end with 200 or 404, however their existence
\* checks, type checks and removals interleave.
C15_ConcurrentDeletesTolerated ==
    (/\ req.method = "DELETE"
     /\ InsideRoot(ResolvedBefore)
     /\ ResolvedBefore \in DOMAIN prev
     /\ prev[ResolvedBefore].kind \in {"file", "dir"}
     /\ ~IsSymlink(prev, req.path))
    => \A w \in Workers : workers[w].pc = "done" => workers[w].status \in {200, 404}

\* The part of C15 the code keeps: on a regular file both requests end with
\* 200 or 404.
C15_FilesTolerated ==
    (/\ req.method = "DELETE"
     /\ InsideRoot(ResolvedBefore)
     /\ ResolvedBefore \in DOMAIN prev
     /\ prev[ResolvedBefore].kind = "file")
    => \A w \in Workers : workers[w].pc = "done" => workers[w].status \in {200, 404}

\* C17: of two POST requests on the same confined path that does not exist
\* at first, at most one returns 200, and what a request that returned 200
\* has written is in the file when both have returned.
C17_AtMostOnePostCreates ==
    (/\ req.method = "POST"
     /\ InsideRoot(ResolvedBefore)
     /\ ResolvedBefore \notin DOMAIN prev)
    => /\ Cardinality({w \in Workers : workers[w].status = 200}) <= 1
       /\ \A w \in Workers :
            (AllDone /\ workers[w].status = 200) =>
                /\ ResolvedBefore \in DOMAIN fs
                /\ fs[ResolvedBefore].content = PayloadBytes(workers[w].body)

====
